---- MODULE Spec2Model ----
(***************************************************************************)
(* A state-machine model of the bomberman simulation core                  *)
(* (src/bomberman/model/entity.py, src/bomberman/model/maze.py) driven by  *)
(* GameController.time_spend (src/bomberman/controller/controller.py).     *)
(*                                                                         *)
(* Time.  The code measures time in float seconds.  The model measures it  *)
(* in integer units of 1/1200 s, so that every time constant of the code   *)
(* and every frame time used below is an integer and delay * speed is      *)
(* delay * 300 / 1200 = delay / 4 sub-steps; int() is the floor of that.   *)
(* Arithmetic on times is therefore exact, where the code's is IEEE        *)
(* double arithmetic.                                                      *)
(*                                                                         *)
(* Objects.  Entities are identified by the integers 1..MaxEntities (the   *)
(* code's reference identity); ent[e] holds the fields of object e and     *)
(* ent[e].kind = "None" says that e is not constructed yet.  A method is   *)
(* an operator from a world (the heap ent, the maze's entity set, the      *)
(* events passed to changed() so far, the pending exception) to the world  *)
(* after the call.                                                         *)
(***************************************************************************)
EXTENDS Integers, Sequences, FiniteSets, TLC

VARIABLES
    ent,        \* the fields of every entity object
    entities,   \* Maze.entities
    controllers,\* GameController.controllers: the players that have a controller
    bombing,    \* PlayerController.bombing of each player's controller
    pc,         \* where the driver is: "idle", "sweep" or "controllers"
    pending,    \* entities of time_spend's snapshot not yet updated
    order,      \* the order in which the snapshot is iterated
    ctl,        \* index of the next controller in time_spend's second loop
    delta,      \* delta_time of the tick in progress
    ticks,      \* number of ticks started
    hits,       \* number of hit() calls made
    events,     \* events passed to changed() by the last operation, in order
    op,         \* the last operation called and its arguments
    raised,     \* the exception that escaped the last operation, if any
    level,      \* the maze, or the description, that the text format is applied to
    string,     \* the text: Maze.serialize's result, Maze.unserialize's argument
    loaded,     \* what Maze.unserialize returned or raised
    observers,  \* Observable.observers of one subject
    notified    \* the notify calls made on that subject's observers, in order

(* The variables the driver does not touch *)
aside == <<level, string, loaded, observers, notified>>

vars == <<ent, entities, controllers, bombing, pc, pending, order, ctl, delta, ticks, hits, events, op, raised, aside>>

-----------------------------------------------------------------------------
(* Bounds of the model *)

MaxEntities == 7
MaxTicks == 3
HitTicks == 2
MaxHits == 2
WalkTicks == 18
BombTicks == 7
PlayTicks == 2
DuelTicks == 2
BlockTicks == 3
MaxAdds == 2
MaxCells == 4
DescriptionRows == 2
DescriptionColumns == 2
MaxObservers == 3
MaxNotified == 8

(* Program constants, times in units of 1/1200 s *)

ROWS == 2
COLUMNS == 3
BASE_HEALTH == 0
REMOVING_DELAY == 0
BreakableWall_REMOVING_DELAY == 600
Bomb_REMOVING_DELAY == 0
BASE_TIMEOUT == 6000
FAST_TIMEOUT == 2400
BASE_SPEED == 300
Player_BASE_HEALTH == 100
BASE_BOMB_CAPACITY == 6
TILE_STEPS == 100
AHEAD_STEP == 80
FRAME_RATE == 48

Ids == 1..MaxEntities

NoDir == "None"
NoPos == <<>>
NoEntity == 0
NoError == "none"

(* Direction: the enum's members, and the offset each carries *)
Direction == {"UP", "DOWN", "RIGHT", "LEFT"}

DirectionValue(d) ==
    CASE d = "UP" -> <<-1, 0>>
      [] d = "DOWN" -> <<1, 0>>
      [] d = "RIGHT" -> <<0, 1>>
      [] d = "LEFT" -> <<0, -1>>

(* Damage.Type *)
DamageType == {"ENEMIES", "BOMBS"}

(* Position.__add__ with a Direction *)
Position_add(p, d) == <<p[1] + DirectionValue(d)[1], p[2] + DirectionValue(d)[2]>>

(* The classes of entity.py, and the classes each is an instance of *)
Kinds == {"SolideWall", "BreakableWall", "Bomb", "MovingEntity", "Player", "Enemy"}

Mro(k) ==
    CASE k = "Player" -> {"Player", "MovingEntity", "Entity"}
      [] k = "Enemy" -> {"Enemy", "MovingEntity", "Entity"}
      [] k = "MovingEntity" -> {"MovingEntity", "Entity"}
      [] k = "None" -> {}
      [] OTHER -> {k, "Entity"}

IsInstance(k, classes) == Mro(k) \cap classes # {}

(* Per-class attributes *)
VULNERABILITIES(k) ==
    CASE k = "BreakableWall" -> {"BOMBS"}
      [] k = "Bomb" -> {"BOMBS"}
      [] k = "Player" -> {"BOMBS", "ENEMIES"}
      [] k = "Enemy" -> {"BOMBS"}
      [] OTHER -> {}

RemovingDelayOf(k) ==
    CASE k = "BreakableWall" -> BreakableWall_REMOVING_DELAY
      [] k = "Bomb" -> Bomb_REMOVING_DELAY
      [] OTHER -> REMOVING_DELAY

BaseHealthOf(k) == IF k = "Player" THEN Player_BASE_HEALTH ELSE BASE_HEALTH

BLOCKED_BY(k) ==
    CASE k = "Player" -> {"BreakableWall", "SolideWall", "Player"}
      [] k = "Enemy" -> {"BreakableWall", "SolideWall", "Enemy"}
      [] OTHER -> {}

-----------------------------------------------------------------------------
(* Object construction *)

(* An unconstructed slot of the heap.  The fields after fast_bomb are not in
   the code: explosions counts the calls of Bomb.explodes, removing_for sums
   the delays received while removing, origin is the position given to the
   constructor, updates counts the update calls received and since is the
   number of ticks started when the object was constructed *)
Blank ==
    [kind |-> "None", position |-> NoPos, health |-> 0, is_removing |-> FALSE,
     removing_delay |-> 0, player |-> NoEntity, timeout |-> 0,
     speed |-> 0, current_direction |-> NoDir, next_direction |-> NoDir,
     next_position |-> NoPos, step |-> 0, try_moving_since |-> 0,
     bomb_capacity |-> 0, fast_bomb |-> FALSE,
     explosions |-> 0, removing_for |-> -1, origin |-> NoPos,
     updates |-> 0, since |-> 0]

(* Entity.__init__; origin keeps the position the constructor was given *)
Entity_init(k, p) ==
    [Blank EXCEPT !.kind = k, !.position = p, !.health = BaseHealthOf(k),
                  !.is_removing = FALSE, !.removing_delay = RemovingDelayOf(k),
                  !.origin = p]

(* MovingEntity.__init__ *)
MovingEntity_init(k, p) ==
    [Entity_init(k, p) EXCEPT !.speed = BASE_SPEED, !.current_direction = NoDir,
                              !.next_direction = NoDir, !.next_position = NoPos,
                              !.step = 0, !.try_moving_since = 0]

(* Player.__init__ *)
Player_init(p) ==
    [MovingEntity_init("Player", p) EXCEPT !.bomb_capacity = BASE_BOMB_CAPACITY,
                                           !.fast_bomb = FALSE]

(* Bomb.__init__ *)
Bomb_init(w, player, p) ==
    [Entity_init("Bomb", p) EXCEPT
        !.player = player,
        !.timeout = IF w.ent[player].fast_bomb THEN FAST_TIMEOUT ELSE BASE_TIMEOUT]

-----------------------------------------------------------------------------
(* Observable and Maze *)

(* The world an operation starts in *)
World == [ent |-> ent, entities |-> entities, events |-> <<>>, raised |-> NoError]

(* Observable.changed on the maze or on entity e (the subject): the event, with
   what an observer notified of it sees *)
changed(w, subject, type, e) ==
    [w EXCEPT !.events = Append(@,
        [type |-> type, subject |-> subject, entity |-> e,
         health |-> w.ent[e].health, is_removing |-> w.ent[e].is_removing,
         member |-> e \in w.entities,
         position |-> w.ent[e].position, step |-> w.ent[e].step])]

(* Maze.is_inside with the upper limits included *)
is_inside_Inclusive(p) == 0 <= p[1] /\ p[1] <= ROWS /\ 0 <= p[2] /\ p[2] <= COLUMNS

(* Maze.is_inside *)
is_inside(p) == 0 <= p[1] /\ p[1] < ROWS /\ 0 <= p[2] /\ p[2] < COLUMNS

(* Maze.contains counting the tiles entities are moving to as well *)
contains_Destinations(w, classes, p) ==
    \E x \in w.entities :
        /\ IsInstance(w.ent[x].kind, classes)
        /\ w.ent[x].position = p \/ w.ent[x].next_position = p

(* Maze.contains overlooking the entities in the Removing state *)
contains_Alive(w, classes, p) ==
    \E x \in w.entities :
        /\ w.ent[x].position = p
        /\ IsInstance(w.ent[x].kind, classes)
        /\ ~w.ent[x].is_removing

(* Maze.contains *)
contains(w, classes, p) ==
    \E x \in w.entities : w.ent[x].position = p /\ IsInstance(w.ent[x].kind, classes)

(* Maze.add_entity *)
add_entity(w, e) ==
    IF ~is_inside(w.ent[e].position)
    THEN [w EXCEPT !.raised = "OutOfMazeError"]
    ELSE changed([w EXCEPT !.entities = @ \cup {e}], "maze", "NewEntityEvent", e)

(* Maze.remove_entity *)
remove_entity(w, e) ==
    IF e \notin w.entities
    THEN [w EXCEPT !.raised = "KeyError"]
    ELSE changed([w EXCEPT !.entities = @ \ {e}], "maze", "RemovedEntityEvent", e)

-----------------------------------------------------------------------------
(* Entity and its subclasses *)

(* Entity.removing with the flag flipped instead of set *)
Entity_removing_Toggle(w, e) == [w EXCEPT !.ent[e].is_removing = ~@]

(* Entity.removing *)
Entity_removing(w, e) == [w EXCEPT !.ent[e].is_removing = TRUE]

(* Player.bomb_explodes *)
bomb_explodes(w, p) == [w EXCEPT !.ent[p].bomb_capacity = @ + 1]

(* Bomb.explodes: the explosion trigger.  Its body is `pass`; the model counts
   the calls in the bomb's field explosions, which the code does not have. *)
explodes(w, e) == [w EXCEPT !.ent[e].explosions = @ + 1]

(* Bomb.removing *)
Bomb_removing(w, e) ==
    explodes(bomb_explodes(Entity_removing(w, e), w.ent[e].player), e)

(* self.removing(), dispatched on the class of e *)
removing(w, e) ==
    IF w.ent[e].kind = "Bomb" THEN Bomb_removing(w, e) ELSE Entity_removing(w, e)

(* Entity.remove *)
remove(w, e) == remove_entity(w, e)

(* Entity.update with the removal test < 0 in place of <= 0 *)
Entity_update_Strict(w, e, delay) ==
    IF w.ent[e].is_removing
    THEN LET w1 == [w EXCEPT !.ent[e].removing_delay = @ - delay]
         IN  IF w1.ent[e].removing_delay < 0
             THEN remove(w1, e)
             ELSE changed(w1, "entity", "RemovingEntityEvent", e)
    ELSE w

(* Entity.update *)
Entity_update(w, e, delay) ==
    IF w.ent[e].is_removing
    THEN LET w1 == [w EXCEPT !.ent[e].removing_delay = @ - delay]
         IN  IF w1.ent[e].removing_delay <= 0
             THEN remove(w1, e)
             ELSE changed(w1, "entity", "RemovingEntityEvent", e)
    ELSE w

(* Entity.hit without the test of the vulnerabilities *)
hit_Unchecked(w, e, damage) ==
    LET w1 == changed(w, "entity", "HitEntityEvent", e)
        w2 == [w1 EXCEPT !.ent[e].health = @ - damage.damage]
    IN  IF w2.ent[e].health <= 0 THEN removing(w2, e) ELSE w2

(* Entity.hit with the event emitted once the damage is applied *)
hit_EventLast(w, e, damage) ==
    IF damage.type \in VULNERABILITIES(w.ent[e].kind)
    THEN LET w1 == [w EXCEPT !.ent[e].health = @ - damage.damage]
             w2 == IF w1.ent[e].health <= 0 THEN removing(w1, e) ELSE w1
         IN  changed(w2, "entity", "HitEntityEvent", e)
    ELSE w

(* Entity.hit; damage is a record [damage, type] *)
hit(w, e, damage) ==
    IF damage.type \in VULNERABILITIES(w.ent[e].kind)
    THEN LET w1 == changed(w, "entity", "HitEntityEvent", e)
             w2 == [w1 EXCEPT !.ent[e].health = @ - damage.damage]
         IN  IF w2.ent[e].health <= 0 THEN removing(w2, e) ELSE w2
    ELSE w

(* Bomb.update with the timeout test < 0 in place of <= 0 *)
Bomb_update_Strict(w, e, delay) ==
    IF ~w.ent[e].is_removing
    THEN LET w1 == [w EXCEPT !.ent[e].timeout = @ - delay]
         IN  IF w1.ent[e].timeout < 0
             THEN LET w2 == removing(w1, e)
                  IN  Entity_update(w2, e, -w2.ent[e].timeout)
             ELSE changed(w1, "entity", "ForwardTimeEvent", e)
    ELSE w

(* Bomb.update *)
Bomb_update(w, e, delay) ==
    IF ~w.ent[e].is_removing
    THEN LET w1 == [w EXCEPT !.ent[e].timeout = @ - delay]
         IN  IF w1.ent[e].timeout <= 0
             THEN LET w2 == removing(w1, e)
                  IN  Entity_update(w2, e, -w2.ent[e].timeout)
             ELSE changed(w1, "entity", "ForwardTimeEvent", e)
    ELSE w

(* delay * self.speed rounded up instead of truncated *)
StepsIn_Rounded(delay, speed) == (delay * speed + 1199) \div 1200

(* int(delay * self.speed), delay in units of 1/1200 s *)
StepsIn(delay, speed) == (delay * speed) \div 1200

(* The test of lines 221 and 244 without is_inside *)
CanEnter_Unbounded(w, e) ==
    ~contains(w, BLOCKED_BY(w.ent[e].kind),
              Position_add(w.ent[e].position, w.ent[e].current_direction))

(* The test of lines 221 and 244 without contains *)
CanEnter_Unblocked(w, e) ==
    is_inside(Position_add(w.ent[e].position, w.ent[e].current_direction))

(* The test of lines 221 and 244: the tile next to e in its current direction
   is inside the maze and holds no entity of a class that blocks e *)
CanEnter(w, e) ==
    LET next_position == Position_add(w.ent[e].position, w.ent[e].current_direction)
    IN  /\ is_inside(next_position)
        /\ ~contains(w, BLOCKED_BY(w.ent[e].kind), next_position)

(* Lines 229-246 keeping the sub-steps left over when no transition follows *)
CompleteMove_Keep(w, e) ==
    LET step == w.ent[e].step - TILE_STEPS
        w1 == [w EXCEPT !.ent[e].position = w.ent[e].next_position,
                        !.ent[e].step = step,
                        !.ent[e].next_position = NoPos,
                        !.ent[e].current_direction = NoDir,
                        !.ent[e].try_moving_since = 0]
    IN  IF w1.ent[e].next_direction # NoDir
        THEN LET w2 == [w1 EXCEPT !.ent[e].current_direction = w1.ent[e].next_direction]
             IN  IF CanEnter(w2, e)
                 THEN [w2 EXCEPT
                         !.ent[e].next_position =
                             Position_add(w2.ent[e].position, w2.ent[e].current_direction)]
                 ELSE w2
        ELSE w1

(* MovingEntity.update, lines 229-246: the tile is completed *)
CompleteMove(w, e) ==
    LET step == w.ent[e].step - TILE_STEPS
        w1 == [w EXCEPT !.ent[e].position = w.ent[e].next_position,
                        !.ent[e].step = 0,
                        !.ent[e].next_position = NoPos,
                        !.ent[e].current_direction = NoDir,
                        !.ent[e].try_moving_since = 0]
    IN  IF w1.ent[e].next_direction # NoDir
        THEN LET w2 == [w1 EXCEPT !.ent[e].current_direction = w1.ent[e].next_direction]
             IN  IF CanEnter(w2, e)
                 THEN [w2 EXCEPT
                         !.ent[e].next_position =
                             Position_add(w2.ent[e].position, w2.ent[e].current_direction),
                         !.ent[e].step = step]
                 ELSE w2
        ELSE w1

(* MovingEntity.update without the return of lines 206-207 *)
MovingEntity_update_Restless(w, e, delay) ==
    LET w1 == Entity_update(w, e, delay)
        w2 == IF w1.ent[e].next_position = NoPos
              THEN [w1 EXCEPT !.ent[e].current_direction = w1.ent[e].next_direction]
              ELSE w1
        w3 == [w2 EXCEPT !.ent[e].try_moving_since = @ + delay]
        w4 == IF w3.ent[e].next_position = NoPos /\ CanEnter(w3, e)
              THEN [w3 EXCEPT !.ent[e].next_position =
                        Position_add(w3.ent[e].position, w3.ent[e].current_direction)]
              ELSE w3
        w5 == [w4 EXCEPT !.ent[e].step = @ + StepsIn(delay, w4.ent[e].speed)]
        w6 == IF w5.ent[e].step >= TILE_STEPS THEN CompleteMove(w5, e) ELSE w5
    IN  IF w1.raised # NoError THEN w1
        ELSE IF w2.ent[e].current_direction = NoDir
             THEN changed(w2, "entity", "MovedEntityEvent", e)
        ELSE IF w4.ent[e].next_position = NoPos
             THEN changed(w4, "entity", "MovedEntityEvent", e)
        ELSE changed(w6, "entity", "MovedEntityEvent", e)

(* MovingEntity.update *)
MovingEntity_update(w, e, delay) ==
    LET w1 == Entity_update(w, e, delay)
        w2 == IF w1.ent[e].next_position = NoPos
              THEN [w1 EXCEPT !.ent[e].current_direction = w1.ent[e].next_direction]
              ELSE w1
        w3 == [w2 EXCEPT !.ent[e].try_moving_since = @ + delay]
        w4 == IF w3.ent[e].next_position = NoPos /\ CanEnter(w3, e)
              THEN [w3 EXCEPT !.ent[e].next_position =
                        Position_add(w3.ent[e].position, w3.ent[e].current_direction)]
              ELSE w3
        w5 == [w4 EXCEPT !.ent[e].step = @ + StepsIn(delay, w4.ent[e].speed)]
        w6 == IF w5.ent[e].step >= TILE_STEPS THEN CompleteMove(w5, e) ELSE w5
    IN  IF w1.raised # NoError \/ w1.ent[e].is_removing THEN w1
        ELSE IF w2.ent[e].current_direction = NoDir
             THEN changed(w2, "entity", "MovedEntityEvent", e)
        ELSE IF w4.ent[e].next_position = NoPos
             THEN changed(w4, "entity", "MovedEntityEvent", e)
        ELSE changed(w6, "entity", "MovedEntityEvent", e)

(* entity_.update(delta_time), dispatched on the class of e *)
update(w, e, delay) ==
    CASE w.ent[e].kind = "Bomb" -> Bomb_update(w, e, delay)
      [] IsInstance(w.ent[e].kind, {"MovingEntity"}) -> MovingEntity_update(w, e, delay)
      [] OTHER -> Entity_update(w, e, delay)

(* The identity of the next object constructed *)
FreeIds(w) == {x \in Ids : w.ent[x].kind = "None"}
NewId(w) == CHOOSE x \in FreeIds(w) : \A y \in FreeIds(w) : x <= y

(* The placement tile without the look ahead of lines 273-274 *)
BombPosition_Here(w, e) == w.ent[e].position

(* The tile Player.bombs places on (lines 272-274) *)
BombPosition(w, e) ==
    IF w.ent[e].step > AHEAD_STEP
    THEN Position_add(w.ent[e].position, w.ent[e].current_direction)
    ELSE w.ent[e].position

(* Whether Player.bombs reaches line 279 and constructs a Bomb *)
Constructs(w, e) ==
    /\ ~(w.ent[e].step > AHEAD_STEP /\ w.ent[e].current_direction = NoDir)
    /\ w.ent[e].bomb_capacity > 0
    /\ ~contains(w, {"Bomb"}, BombPosition(w, e))

(* Player.bombs without the test for a Bomb on the tile *)
bombs_Unchecked(w, e) ==
    LET bomb == NewId(w)
        w1 == [w EXCEPT !.ent[bomb] = Bomb_init(w, e, BombPosition(w, e))]
        w2 == add_entity(w1, bomb)
    IN  IF w.ent[e].step > AHEAD_STEP /\ w.ent[e].current_direction = NoDir
        THEN [w EXCEPT !.raised = "TypeError"]
        ELSE IF w.ent[e].bomb_capacity > 0
             THEN IF w2.raised # NoError THEN w2
                  ELSE [w2 EXCEPT !.ent[e].bomb_capacity = @ - 1]
             ELSE w

(* Player.bombs looking ahead whatever the step *)
bombs_Ahead(w, e) ==
    LET bomb == NewId(w)
        bomb_position == Position_add(w.ent[e].position, w.ent[e].current_direction)
        w1 == [w EXCEPT !.ent[bomb] = Bomb_init(w, e, bomb_position)]
        w2 == add_entity(w1, bomb)
    IN  IF w.ent[e].current_direction = NoDir
        THEN [w EXCEPT !.raised = "TypeError"]
        ELSE IF w.ent[e].bomb_capacity > 0
             THEN IF contains(w, {"Bomb"}, bomb_position) THEN w
                  ELSE IF w2.raised # NoError THEN w2
                  ELSE [w2 EXCEPT !.ent[e].bomb_capacity = @ - 1]
             ELSE w

(* Player.bombs *)
bombs(w, e) ==
    LET ahead == w.ent[e].step > AHEAD_STEP
        bomb_position == BombPosition(w, e)
        bomb == NewId(w)
        w1 == [w EXCEPT !.ent[bomb] = Bomb_init(w, e, bomb_position)]
        w2 == add_entity(w1, bomb)
    IN  IF ahead /\ w.ent[e].current_direction = NoDir
        THEN [w EXCEPT !.raised = "TypeError"]
        ELSE IF w.ent[e].bomb_capacity > 0
             THEN IF contains(w, {"Bomb"}, bomb_position) THEN w
                  ELSE IF w2.raised # NoError THEN w2
                  ELSE [w2 EXCEPT !.ent[e].bomb_capacity = @ - 1]
             ELSE w

(* MovingEntity.set_wanted_direction taking effect at once *)
set_wanted_direction_Now(w, e, direction) ==
    [w EXCEPT !.ent[e].next_direction = direction,
              !.ent[e].current_direction = direction]

(* MovingEntity.set_wanted_direction *)
set_wanted_direction(w, e, direction) == [w EXCEPT !.ent[e].next_direction = direction]

-----------------------------------------------------------------------------
(* The maze text format.  A str is the sequence of its characters. *)

SEP == "|"
VOID == " "
NEWLINE == "\n"

(* cls.REPR, "" for a class that has none *)
REPR(k) ==
    CASE k = "BreakableWall" -> "B"
      [] k = "SolideWall" -> "S"
      [] k = "Player" -> "P"
      [] OTHER -> ""

(* EntityClass.representation_to_entity_class.get(char) *)
representation_to_entity_class(char) ==
    IF \E k \in Kinds : REPR(k) # "" /\ <<REPR(k)>> = char
    THEN CHOOSE k \in Kinds : <<REPR(k)>> = char
    ELSE "None"

(* sep.join(parts) *)
RECURSIVE join(_, _)
join(sep, parts) ==
    IF Len(parts) = 0 THEN <<>>
    ELSE IF Len(parts) = 1 THEN parts[1]
    ELSE parts[1] \o <<sep>> \o join(sep, Tail(parts))

(* s.split(sep) *)
RECURSIVE split(_, _)
split(s, sep) ==
    IF \E k \in 1..Len(s) : s[k] = sep
    THEN LET k == CHOOSE k \in 1..Len(s) : s[k] = sep /\ \A h \in 1..(k - 1) : s[h] # sep
         IN  <<SubSeq(s, 1, k - 1)>> \o split(SubSeq(s, k + 1, Len(s)), sep)
    ELSE <<s>>

(* s.strip(): the whitespace of the format's alphabet is the space and the
   newline *)
Whitespace == {VOID, NEWLINE}

strip(s) ==
    LET kept == {k \in 1..Len(s) : s[k] \notin Whitespace}
    IN  IF kept = {} THEN <<>>
        ELSE SubSeq(s, CHOOSE k \in kept : \A h \in kept : k <= h,
                       CHOOSE k \in kept : \A h \in kept : k >= h)

(* Values of the text variables before the operation that sets them *)
NoLevel == [size |-> <<0, 0>>, entities |-> {}, rows |-> <<>>]
NoString == <<"unset">>
NotLoaded == [raised |-> "unset", line |-> -1, at |-> <<>>, size |-> <<0, 0>>, entities |-> {}]

(* Maze.__str__ of a maze m = [size, entities], an entity being a class and a
   position.  Two entities on one tile: the code keeps the one iterated last,
   the model chooses one. *)
Maze_str(m) ==
    LET On(i, j) == {e \in m.entities : REPR(e.kind) # "" /\ e.position = <<i, j>>}
        tmp == [i \in 1..m.size[1] |-> [j \in 1..m.size[2] |->
                   IF On(i - 1, j - 1) = {} THEN <<VOID>>
                   ELSE <<REPR((CHOOSE e \in On(i - 1, j - 1) : TRUE).kind)>>]]
    IN  join(NEWLINE, [i \in 1..m.size[1] |-> join(SEP, tmp[i])])

(* Maze.unserialize: the maze built, or the MazeDescriptionError raised with
   the row index (`Line i has not the same shape`) or the position (`Unkown
   identifier at (i, j)`) its message names *)
unserialize(str) ==
    LET lines == split(strip(str), NEWLINE)
        matrix == [i \in 1..Len(lines) |-> split(lines[i], SEP)]
        rows == Len(matrix)
        columns == Len(matrix[1])
        Unknown(i) == {j \in 1..Len(matrix[i]) :
                          /\ matrix[i][j] # <<VOID>>
                          /\ representation_to_entity_class(matrix[i][j]) = "None"}
        failing == {i \in 1..rows : Len(matrix[i]) # columns \/ Unknown(i) # {}}
        filled == {t \in (1..rows) \X (1..columns) : matrix[t[1]][t[2]] # <<VOID>>}
    IN  IF failing = {}
        THEN [NotLoaded EXCEPT
                 !.raised = NoError,
                 !.size = <<rows, columns>>,
                 !.entities =
                     {[kind |-> representation_to_entity_class(matrix[t[1]][t[2]]),
                       position |-> <<t[1] - 1, t[2] - 1>>] : t \in filled}]
        ELSE LET i == CHOOSE i \in failing : \A h \in failing : i <= h
             IN  IF Len(matrix[i]) # columns
                 THEN [NotLoaded EXCEPT !.raised = "MazeDescriptionError",
                                        !.line = i - 1]
                 ELSE [NotLoaded EXCEPT
                          !.raised = "MazeDescriptionError",
                          !.at = <<i - 1,
                                   (CHOOSE j \in Unknown(i) :
                                        \A h \in Unknown(i) : j <= h) - 1>>]

-----------------------------------------------------------------------------
(* The driver: Game.game's loop and GameController *)

(* Frame times the driver delivers, in units of 1/1200 s: 0.3 s and 5 s *)
Deltas == {360, 6000}

(* Magnitudes of the damages dealt *)
Magnitudes == {0, 60}

(* timer.tick(48) / 1000 at the nominal frame rate: 1/48 s *)
FrameTime == 1200 \div FRAME_RATE

Op(name, e, delay, damage, type, direction) ==
    [name |-> name, entity |-> e, delay |-> delay, damage |-> damage,
     type |-> type, direction |-> direction]

(* The state after an operation that ends in world w; an object constructed
   by the operation notes the tick it was constructed in *)
Commit(w) ==
    /\ ent' = [x \in Ids |->
                 IF ent[x].kind = "None" /\ w.ent[x].kind # "None"
                 THEN [w.ent[x] EXCEPT !.since = ticks]
                 ELSE w.ent[x]]
    /\ entities' = w.entities
    /\ events' = w.events
    /\ raised' = w.raised

(* The maze of the arena: a player, an enemy, a breakable and a solid wall
       P| |B
       S| |E                                                                *)
ArenaEnt ==
    [x \in Ids |->
        CASE x = 1 -> Player_init(<<0, 0>>)
          [] x = 2 -> MovingEntity_init("Enemy", <<1, 2>>)
          [] x = 3 -> Entity_init("BreakableWall", <<0, 2>>)
          [] x = 4 -> Entity_init("SolideWall", <<1, 0>>)
          [] OTHER -> Blank]

InitControl ==
    /\ pc = "idle"
    /\ pending = {}
    /\ order = "ascending"
    /\ ctl = 1
    /\ delta = 0
    /\ ticks = 0
    /\ hits = 0
    /\ events = <<>>
    /\ op = Op("init", NoEntity, 0, 0, "None", NoDir)
    /\ raised = NoError

InitDriver ==
    /\ InitControl
    /\ level = NoLevel
    /\ string = NoString
    /\ loaded = NotLoaded
    /\ observers = <<>>
    /\ notified = <<>>

Init ==
    /\ ent = ArenaEnt
    /\ entities = {1, 2, 3, 4}
    /\ controllers = <<1>>
    /\ bombing = [x \in Ids |-> FALSE]
    /\ InitDriver

(* PlayerController.handle_event, a direction key: set_wanted_direction *)
SetWantedDirection(e, direction) ==
    /\ pc = "idle" /\ raised = NoError
    /\ IsInstance(ent[e].kind, {"MovingEntity"})
    /\ ent[e].next_direction # direction
    /\ Commit(set_wanted_direction(World, e, direction))
    /\ op' = Op("set_wanted_direction", e, 0, 0, "None", direction)
    /\ UNCHANGED <<controllers, bombing, pc, pending, order, ctl, delta, ticks, hits, aside>>

(* The players that have a controller *)
Controlled == {controllers[k] : k \in 1..Len(controllers)}

(* PlayerController.handle_event, the bombs key *)
BombKey(p, down) ==
    /\ pc = "idle" /\ raised = NoError
    /\ p \in Controlled
    /\ bombing[p] # down
    /\ bombing' = [bombing EXCEPT ![p] = down]
    /\ events' = <<>>
    /\ op' = Op("bomb_key", p, 0, 0, "None", NoDir)
    /\ UNCHANGED <<ent, entities, controllers, pc, pending, order, ctl, delta, ticks, hits, raised, aside>>

(* entity.hit(Damage(magnitude, type)) on an entity of the maze *)
Hit(e, magnitude, type) ==
    /\ pc = "idle" /\ raised = NoError
    /\ e \in entities
    /\ hits < MaxHits
    /\ hits' = hits + 1
    /\ Commit(hit(World, e, [damage |-> magnitude, type |-> type]))
    /\ op' = Op("hit", e, 0, magnitude, type, NoDir)
    /\ UNCHANGED <<controllers, bombing, pc, pending, order, ctl, delta, ticks, aside>>

(* time_spend leaving its first loop one entity early *)
AfterSweep_Early(left) ==
    IF Cardinality(left) > 1 THEN "sweep"
    ELSE IF Len(controllers) > 0 THEN "controllers"
    ELSE "idle"

(* Where time_spend goes once `left` is what remains of the snapshot *)
AfterSweep(left) ==
    IF left # {} THEN "sweep"
    ELSE IF Len(controllers) > 0 THEN "controllers"
    ELSE "idle"

(* GameController.time_spend begins: the snapshot self.maze.entities.copy() *)
TimeSpend(delta_time, iteration, max_ticks) ==
    /\ pc = "idle" /\ raised = NoError
    /\ ticks < max_ticks
    /\ order' = iteration
    /\ ticks' = ticks + 1
    /\ delta' = delta_time
    /\ pending' = entities
    /\ pc' = AfterSweep(entities)
    /\ ctl' = 1
    /\ events' = <<>>
    /\ op' = Op("time_spend", NoEntity, delta_time, 0, "None", NoDir)
    /\ UNCHANGED <<ent, entities, controllers, bombing, hits, raised, aside>>

(* The time e has spent in the Removing state as its update calls told it:
   -1 until an update finds e removing, then the sum of the delays since *)
RemovingFor(e, delay) ==
    IF ent[e].is_removing
    THEN (IF ent[e].removing_for < 0 THEN 0 ELSE ent[e].removing_for) + delay
    ELSE ent[e].removing_for

(* The iteration order of a set of objects is that of their hashes, which are
   their addresses: any order.  The model iterates the snapshot by ascending or
   by descending identity, which updates every two entities in both orders. *)
Orders == {"ascending", "descending"}

NextOf(S, iteration) ==
    IF iteration = "ascending"
    THEN CHOOSE x \in S : \A y \in S : x <= y
    ELSE CHOOSE x \in S : \A y \in S : x >= y

(* One iteration of time_spend's first loop: entity_.update(delta_time) *)
Update(e) ==
    /\ pc = "sweep" /\ raised = NoError
    /\ e \in pending
    /\ e = NextOf(pending, order)
    /\ LET w == update(World, e, delta)
       IN  Commit([w EXCEPT !.ent[e].removing_for = RemovingFor(e, delta),
                            !.ent[e].updates = @ + 1])
    /\ pending' = pending \ {e}
    /\ pc' = AfterSweep(pending \ {e})
    /\ op' = Op("update", e, delta, 0, "None", NoDir)
    /\ UNCHANGED <<controllers, bombing, order, ctl, delta, ticks, hits, aside>>

(* One iteration of time_spend's second loop: PlayerController.time_spend *)
ControllerTimeSpend ==
    /\ pc = "controllers" /\ raised = NoError
    /\ ctl <= Len(controllers)
    /\ LET p == controllers[ctl]
       IN  IF bombing[p]
           THEN /\ Constructs(World, p) => FreeIds(World) # {}
                /\ Commit(bombs(World, p))
                /\ op' = Op("bombs", p, 0, 0, "None", NoDir)
           ELSE /\ UNCHANGED <<ent, entities, raised>>
                /\ events' = <<>>
                /\ op' = Op("controller_idle", p, 0, 0, "None", NoDir)
    /\ ctl' = ctl + 1
    /\ pc' = IF ctl + 1 > Len(controllers) THEN "idle" ELSE "controllers"
    /\ UNCHANGED <<controllers, bombing, pending, order, delta, ticks, hits, aside>>

(* The driver with its inputs: keys, then a tick *)
Next ==
    \/ \E p \in Controlled, d \in Direction \cup {NoDir} : SetWantedDirection(p, d)
    \/ \E p \in Controlled, down \in BOOLEAN : BombKey(p, down)
    \/ \E d \in Deltas, o \in Orders : TimeSpend(d, o, MaxTicks)
    \/ \E e \in Ids : Update(e)
    \/ ControllerTimeSpend

Spec == Init /\ [][Next]_vars

(* The driver while entities are hit.  The player stands still; frame times
   are 0.25 s and 5 s *)
HitDeltas == {300, 6000}

NextHit ==
    \/ \E p \in Controlled, down \in BOOLEAN : BombKey(p, down)
    \/ \E e \in Ids, m \in Magnitudes, t \in DamageType : Hit(e, m, t)
    \/ \E d \in HitDeltas, o \in Orders : TimeSpend(d, o, HitTicks)
    \/ \E e \in Ids : Update(e)
    \/ ControllerTimeSpend

SpecHit == Init /\ [][NextHit]_vars

(* The driver with all its inputs at once: keys, hits and ticks of 0.3 s, on
   a player between a breakable and a solid wall
       P|S|
        |B|                                                                 *)
PlayDelta == 1200 \div 4 + 60

InitPlay ==
    /\ ent = [x \in Ids |->
                CASE x = 1 -> Player_init(<<0, 0>>)
                  [] x = 2 -> Entity_init("BreakableWall", <<1, 1>>)
                  [] x = 3 -> Entity_init("SolideWall", <<0, 1>>)
                  [] OTHER -> Blank]
    /\ entities = {1, 2, 3}
    /\ controllers = <<1>>
    /\ bombing = [x \in Ids |-> FALSE]
    /\ InitDriver

NextPlay ==
    \/ \E p \in Controlled, d \in {"RIGHT", "DOWN"} : SetWantedDirection(p, d)
    \/ \E p \in Controlled : BombKey(p, TRUE)
    \/ \E e \in Ids, m \in Magnitudes, t \in DamageType : Hit(e, m, t)
    \/ \E o \in Orders : TimeSpend(PlayDelta, o, PlayTicks)
    \/ \E e \in Ids : Update(e)
    \/ ControllerTimeSpend

SpecPlay == InitPlay /\ [][NextPlay]_vars

(* The maze on its own: walls are constructed on the tiles of the maze and on
   those around it, and handed to Maze.add_entity *)
Around == {<<i, j>> : i \in (-1)..ROWS, j \in (-1)..COLUMNS}

InitMaze ==
    /\ ent = [x \in Ids |-> Blank]
    /\ entities = {}
    /\ controllers = <<>>
    /\ bombing = [x \in Ids |-> FALSE]
    /\ InitDriver

(* maze.add_entity(klass(maze, position)); the caller catches what it raises *)
AddEntity(k, p) ==
    /\ pc = "idle"
    /\ Cardinality(Ids \ FreeIds(World)) < MaxAdds
    /\ LET e == NewId(World)
           w == [World EXCEPT !.ent[e] = Entity_init(k, p)]
       IN  /\ Commit(add_entity(w, e))
           /\ op' = Op("add_entity", e, 0, 0, "None", NoDir)
    /\ UNCHANGED <<controllers, bombing, pc, pending, order, ctl, delta, ticks, hits, aside>>

NextMaze ==
    \E k \in {"SolideWall", "BreakableWall"}, p \in Around : AddEntity(k, p)

SpecMaze == InitMaze /\ [][NextMaze]_vars

(* The text format on its own: no entity object, the driver idle *)
InitStage ==
    /\ ent = [x \in Ids |-> Blank]
    /\ entities = {}
    /\ controllers = <<>>
    /\ bombing = [x \in Ids |-> FALSE]
    /\ InitControl

driver == <<ent, entities, controllers, bombing, pc, pending, order, ctl, delta, ticks, hits, events, op, raised>>

(* maze.serialize() *)
Serialize ==
    /\ level # NoLevel /\ level.rows = <<>>
    /\ string = NoString
    /\ string' = Maze_str(level)
    /\ UNCHANGED <<driver, level, loaded, observers, notified>>

(* Maze.unserialize(string) *)
Unserialize ==
    /\ string # NoString
    /\ loaded = NotLoaded
    /\ loaded' = unserialize(string)
    /\ UNCHANGED <<driver, level, string, observers, notified>>

(* Every maze of at most MaxCells tiles that holds entities of the classes
   with a REPR, at most one a tile *)
Sizes == {size \in (1..MaxCells) \X (1..MaxCells) : size[1] * size[2] <= MaxCells}
Tiles(size) == (0..(size[1] - 1)) \X (0..(size[2] - 1))
Represented == {k \in Kinds : REPR(k) # ""}

InitText ==
    /\ InitStage
    /\ \E size \in Sizes :
          \E g \in [Tiles(size) -> Represented \cup {"None"}] :
              level = [NoLevel EXCEPT
                          !.size = size,
                          !.entities = {[kind |-> g[t], position |-> t] :
                                           t \in {u \in Tiles(size) : g[u] # "None"}}]
    /\ string = NoString
    /\ loaded = NotLoaded
    /\ observers = <<>>
    /\ notified = <<>>

NextText == Serialize \/ Unserialize

SpecText == InitText /\ [][NextText]_vars

(* Every description of at most DescriptionRows rows of at most
   DescriptionColumns tiles, each tile void or a wall or a player *)
Cells == {<<VOID>>} \cup {<<REPR(k)>> : k \in {"SolideWall", "Player"}}
Rows == UNION {[1..n -> Cells] : n \in 1..DescriptionColumns}

InitDescription ==
    /\ InitStage
    /\ \E rows \in UNION {[1..n -> Rows] : n \in 1..DescriptionRows} :
          /\ level = [NoLevel EXCEPT !.rows = rows]
          /\ string = join(NEWLINE, [i \in 1..Len(rows) |-> join(SEP, rows[i])])
    /\ loaded = NotLoaded
    /\ observers = <<>>
    /\ notified = <<>>

NextDescription == Unserialize

SpecDescription == InitDescription /\ [][NextDescription]_vars

(* One subject and its observers.  Observer.notify is the observer's own
   code: "a" and "b" only take the event, "r" also registers "a" on the
   subject it is notified by (an observer may add observers). *)
Observers == {"a", "b", "r"}
Events == {"NewEntityEvent", "RemovedEntityEvent"}

(* Observable.add_observer *)
add_observer(obs, observer_) == Append(obs, observer_)

(* observer_.notify(event_): the call is recorded, and what the observer does
   to the subject's list *)
notify(w, observer_, event_) ==
    [observers |-> IF observer_ = "r" THEN add_observer(w.observers, "a")
                   ELSE w.observers,
     notified |-> Append(w.notified, [observer |-> observer_, event |-> event_])]

(* Observable.changed looping over a copy of the list taken when it begins *)
RECURSIVE Deliver(_, _, _, _)
Deliver(w, event_, i, n) ==
    IF i > n THEN w
    ELSE Deliver(notify(w, w.observers[i], event_), event_, i + 1, n)

Observable_changed_Snapshot(w, event_, i) == Deliver(w, event_, i, Len(w.observers))

(* Observable.changed: the for loop over self.observers, the list itself, from
   index i on *)
RECURSIVE Observable_changed(_, _, _)
Observable_changed(w, event_, i) ==
    IF i > Len(w.observers) THEN w
    ELSE Observable_changed(notify(w, w.observers[i], event_), event_, i + 1)

InitObservers ==
    /\ InitStage
    /\ level = NoLevel
    /\ string = NoString
    /\ loaded = NotLoaded
    /\ observers = <<>>
    /\ notified = <<>>

(* subject.add_observer(o) *)
AddObserver(o) ==
    /\ Len(observers) < MaxObservers
    /\ observers' = add_observer(observers, o)
    /\ UNCHANGED <<driver, level, string, loaded, notified>>

(* subject.changed(event) *)
Changed(event_) ==
    /\ observers # <<>>
    /\ Len(notified) + Len(observers) <= MaxNotified
    /\ LET w == Observable_changed([observers |-> observers, notified |-> notified],
                                   event_, 1)
       IN  /\ observers' = w.observers
           /\ notified' = w.notified
    /\ UNCHANGED <<driver, level, string, loaded>>

NextObservers ==
    \/ \E o \in Observers : AddObserver(o)
    \/ \E e \in Events : Changed(e)

SpecObservers == InitObservers /\ [][NextObservers]_vars

(* Two players, each with its controller, a free tile between them and a
   solid wall below it, ticked every 0.3 s
       P| |P
        |S|                                                                 *)
InitDuel ==
    /\ ent = [x \in Ids |->
                CASE x = 1 -> Player_init(<<0, 0>>)
                  [] x = 2 -> Player_init(<<0, 2>>)
                  [] x = 3 -> Entity_init("SolideWall", <<1, 1>>)
                  [] OTHER -> Blank]
    /\ entities = {1, 2, 3}
    /\ controllers = <<1, 2>>
    /\ bombing = [x \in Ids |-> FALSE]
    /\ InitDriver

NextDuel ==
    \/ \E p \in Controlled, d \in Direction \cup {NoDir} : SetWantedDirection(p, d)
    \/ \E o \in Orders : TimeSpend(PlayDelta, o, DuelTicks)
    \/ \E e \in Ids : Update(e)
    \/ ControllerTimeSpend

SpecDuel == InitDuel /\ [][NextDuel]_vars

(* A player with a breakable wall on its right, ticked every 0.3 s; the
   player asks to go right, down or nowhere, and player and wall are hit
   with a damage that kills a player at once
       P|B|
        | |                                                                 *)
Lethal == {Player_BASE_HEALTH}

InitBlock ==
    /\ ent = [x \in Ids |->
                CASE x = 1 -> Player_init(<<0, 0>>)
                  [] x = 2 -> Entity_init("BreakableWall", <<0, 1>>)
                  [] OTHER -> Blank]
    /\ entities = {1, 2}
    /\ controllers = <<1>>
    /\ bombing = [x \in Ids |-> FALSE]
    /\ InitDriver

NextBlock ==
    \/ \E p \in Controlled, d \in {"RIGHT", "DOWN", NoDir} : SetWantedDirection(p, d)
    \/ \E e \in Ids, m \in Lethal, t \in DamageType : Hit(e, m, t)
    \/ \E o \in Orders : TimeSpend(PlayDelta, o, BlockTicks)
    \/ \E e \in Ids : Update(e)
    \/ ControllerTimeSpend

SpecBlock == InitBlock /\ [][NextBlock]_vars

(* A MovingEntity of the base class (BLOCKED_BY empty) anywhere in a maze with
   a solid wall, asked for one direction before the first tick and ticked at
   the nominal frame rate *)
Positions == {<<i, j>> : i \in 0..(ROWS - 1), j \in 0..(COLUMNS - 1)}

InitWalk ==
    /\ \E p \in Positions :
          ent = [x \in Ids |->
                    CASE x = 1 -> MovingEntity_init("MovingEntity", p)
                      [] x = 2 -> Entity_init("SolideWall", <<0, 1>>)
                      [] OTHER -> Blank]
    /\ entities = {1, 2}
    /\ controllers = <<>>
    /\ bombing = [x \in Ids |-> FALSE]
    /\ InitDriver

NextWalk ==
    \/ \E e \in Ids, d \in Direction : ticks = 0 /\ SetWantedDirection(e, d)
    \/ \E o \in Orders : TimeSpend(FrameTime, o, WalkTicks)
    \/ \E e \in Ids : Update(e)

SpecWalk == InitWalk /\ [][NextWalk]_vars

(* A player alone in the maze, ticked every 1/3 s (one tile a tick); the bombs
   key, if pressed, is pressed before the first tick and held *)
BombDelta == 1200 \div 3

InitBombs ==
    /\ ent = [x \in Ids |-> IF x = 1 THEN Player_init(<<0, 0>>) ELSE Blank]
    /\ entities = {1}
    /\ controllers = <<1>>
    /\ bombing = [x \in Ids |-> FALSE]
    /\ InitDriver

NextBombs ==
    \/ \E p \in Controlled, d \in Direction \cup {NoDir} : SetWantedDirection(p, d)
    \/ \E p \in Controlled : ticks = 0 /\ BombKey(p, TRUE)
    \/ \E o \in Orders : TimeSpend(BombDelta, o, BombTicks)
    \/ \E e \in Ids : Update(e)
    \/ ControllerTimeSpend

SpecBombs == InitBombs /\ [][NextBombs]_vars

-----------------------------------------------------------------------------
(* Properties *)

Constructed == {x \in Ids : ent[x].kind # "None"}
Bombs == {x \in Constructed : ent[x].kind = "Bomb"}
Removed(e) == e \in Constructed /\ e \notin entities

(* The step is the update of e by the sweep *)
IsUpdate(e) == pc = "sweep" /\ e \in pending /\ op'.name = "update" /\ op'.entity = e

(* The step is a hit of e *)
IsHit(e) == pc = "idle" /\ hits' = hits + 1 /\ op'.name = "hit" /\ op'.entity = e

(* The step is a call of p.bombs() by p's controller *)
IsBombs(p) == pc = "controllers" /\ op'.name = "bombs" /\ op'.entity = p

(* The types of the events emitted, in order *)
Types(evs) == [k \in 1..Len(evs) |-> evs[k].type]

(* C1: every entity that is a member of the maze's entity set has a position
   inside the maze, 0 <= i < rows and 0 <= j < columns, after any sequence of
   direction requests, ticks and bombs() calls, the bombs placed ahead on the
   destination tile included. *)
C1_InBounds ==
    \A e \in entities : is_inside(ent[e].position)

(* C1: bombs() has just placed a bomb ahead, on the destination tile of the
   transition its player is more than 80 sub-steps through *)
C1_Witness ==
    /\ op.name = "bombs"
    /\ ent[op.entity].step > AHEAD_STEP
    /\ Len(events) = 1
    /\ events[1].type = "NewEntityEvent"
    /\ ent[events[1].entity].position = ent[op.entity].next_position
    /\ ent[events[1].entity].position # ent[op.entity].position

(* C2: the lifecycle is monotone.  In no step does is_removing of an entity go
   from true back to false, and in no step does an entity that was removed
   from the maze's entity set become a member of it again. *)
C2_Monotone ==
    [][\A e \in Constructed :
          /\ ent[e].is_removing => ent'[e].is_removing
          /\ Removed(e) => e \notin entities']_vars

(* C2: an entity has been removed, another one is in the Removing state, and
   the program went on (the last operation is on a third party) *)
C2_Witness ==
    \E e, f \in Constructed :
        /\ Removed(e) /\ ent[e].is_removing
        /\ f \in entities /\ ent[f].is_removing
        /\ op.name \in {"hit", "update"} /\ op.entity \notin {e, f}

(* C3, as claimed: an entity of any variant that an update call has found in
   the Removing state is a member of the maze only as long as the time its
   update calls have accumulated since is less than its removing delay: it
   is removed on the first update at which that time is >= the delay. *)
C3_Original ==
    \A e \in entities :
        (ent[e].is_removing /\ ent[e].removing_for >= 0)
            => ent[e].removing_for < RemovingDelayOf(ent[e].kind)

(* C4, as claimed: for every Bomb the explosion trigger (Bomb.removing) has
   fired at most once, and it has fired only if the bomb's timeout has
   reached <= 0. *)
C4_Original ==
    \A b \in Bombs :
        /\ ent[b].explosions <= 1
        /\ ent[b].explosions >= 1 => ent[b].timeout <= 0

(* C5: on the update call at which a Bomb's timeout reaches <= 0, the owning
   player's bomb_capacity increases by exactly 1 and the bomb is removed from
   the maze's entity set within that call: exactly one event is emitted, a
   RemovedEntityEvent for the bomb, and no ForwardTimeEvent. *)
C5_Timeout ==
    [][\A b \in Bombs :
          (IsUpdate(b) /\ ~ent[b].is_removing /\ ent[b].timeout - delta <= 0)
              => /\ ent'[ent[b].player].bomb_capacity = ent[ent[b].player].bomb_capacity + 1
                 /\ b \in entities /\ b \notin entities'
                 /\ Types(events') = <<"RemovedEntityEvent">>
                 /\ events'[1].entity = b
                 /\ ent'[b].explosions = ent[b].explosions + 1]_vars

(* C5: a bomb has just been removed by the update at which its timeout
   reached exactly 0, and its player has its capacity back *)
C5_Witness ==
    /\ op.name = "update"
    /\ ent[op.entity].kind = "Bomb"
    /\ ent[op.entity].timeout = 0
    /\ op.entity \notin entities
    /\ ent[ent[op.entity].player].bomb_capacity = BASE_BOMB_CAPACITY

(* C6: hit(damage) with a damage kind that is not in the entity's
   vulnerability set changes nothing, whatever the magnitude: no field of any
   object, the maze's entity set, and no event is emitted.  So a SolideWall
   (no vulnerability) is alive, unhurt and in the maze in every state. *)
C6_NoEffect ==
    /\ [](\A e \in Constructed : ent[e].kind = "SolideWall" =>
              /\ e \in entities
              /\ ~ent[e].is_removing
              /\ ent[e].health = BASE_HEALTH
              /\ ent[e].removing_delay = REMOVING_DELAY)
    /\ [][\A e \in entities :
             (IsHit(e) /\ op'.type \notin VULNERABILITIES(ent[e].kind))
                 => /\ ent' = ent
                    /\ entities' = entities
                    /\ events' = <<>>
                    /\ raised' = NoError]_vars

(* C6: the solid wall has been hit twice by bombs, ticks between and after *)
C6_Witness ==
    /\ op.name = "hit"
    /\ ent[op.entity].kind = "SolideWall"
    /\ op.type = "BOMBS" /\ op.damage > 0
    /\ hits = 2 /\ ticks = 2
    /\ op.entity \in entities

(* C7: hit(damage) with a damage kind in the vulnerability set emits exactly
   one HitEntityEvent, and emits it before the health changes (the observers
   see the health and is_removing of before the hit); then the magnitude is
   subtracted from health; then is_removing is set exactly when the resulting
   health is <= 0.  The same when the hit is fatal. *)
C7_HitOrder ==
    [][\A e \in entities :
          (IsHit(e) /\ op'.type \in VULNERABILITIES(ent[e].kind))
              => /\ events' = <<[type |-> "HitEntityEvent", subject |-> "entity",
                                 entity |-> e, health |-> ent[e].health,
                                 is_removing |-> ent[e].is_removing,
                                 member |-> TRUE,
                                 position |-> ent[e].position,
                                 step |-> ent[e].step]>>
                 /\ ent'[e].health = ent[e].health - op'.damage
                 /\ ent'[e].is_removing = (ent[e].is_removing \/ ent'[e].health <= 0)]_vars

(* C7: a fatal hit of an entity that had health left: the event shows the
   health of before (> 0) and is_removing false, the entity is now Removing *)
C7_Witness ==
    /\ op.name = "hit"
    /\ Len(events) = 1
    /\ events[1].type = "HitEntityEvent"
    /\ events[1].health > 0 /\ ~events[1].is_removing
    /\ ent[op.entity].health <= 0 /\ ent[op.entity].is_removing

(* C8: a BreakableWall hit by BOMBS damage is Removing, and still in the maze,
   when hit returns.  On every later tick whose cumulative elapsed time is
   < 0.5 s it stays in the maze and emits exactly one RemovingEntityEvent; on
   the first tick at which the cumulative elapsed time is >= 0.5 s it is
   removed, with exactly one RemovedEntityEvent and no RemovingEntityEvent. *)
C8_BreakableWall ==
    [][\A e \in entities : ent[e].kind = "BreakableWall" =>
          /\ (IsHit(e) /\ op'.type = "BOMBS")
                => (ent'[e].is_removing /\ e \in entities')
          /\ (IsUpdate(e) /\ ent[e].is_removing)
                => IF RemovingFor(e, delta) < BreakableWall_REMOVING_DELAY
                   THEN /\ e \in entities'
                        /\ Types(events') = <<"RemovingEntityEvent">>
                        /\ events'[1].entity = e
                   ELSE /\ e \notin entities'
                        /\ Types(events') = <<"RemovedEntityEvent">>
                        /\ events'[1].entity = e]_vars

(* C8: the wall has just been removed by the update at which the elapsed
   time reached 0.5 s exactly, after a tick on which it was kept *)
C8_Witness ==
    /\ op.name = "update"
    /\ ent[op.entity].kind = "BreakableWall"
    /\ Removed(op.entity)
    /\ ent[op.entity].removing_for = BreakableWall_REMOVING_DELAY
    /\ ticks = 2

(* Sub-steps a tick of 1/48 s advances: int(300 / 48) = 6 *)
StepsPerFrame == BASE_SPEED \div FRAME_RATE

(* ceil(100 / (300 / 48)) = 16 *)
ClaimedTicks == (TILE_STEPS * FRAME_RATE + BASE_SPEED - 1) \div BASE_SPEED

(* ceil(100 / int(300 / 48)) = 17 *)
FirstTileTicks == (TILE_STEPS + StepsPerFrame - 1) \div StepsPerFrame

(* The entities of the base class MovingEntity that hold a direction whose
   tile, next to where they started, is inside the maze *)
Walkers ==
    {m \in entities :
        /\ ent[m].kind = "MovingEntity"
        /\ ent[m].next_direction # NoDir
        /\ is_inside(Position_add(ent[m].origin, ent[m].next_direction))}

(* The update calls m has received *)
Updates(m) == IF m \in pending THEN ticks - 1 ELSE ticks

(* C9, as claimed: a MovingEntity with speed 300 and BLOCKED_BY empty, idle at
   step 0, holding one direction with an in-bounds destination and ticked
   every 1/48 s, completes its first tile on tick ceil(100/(300/48)) = 16
   exactly: its position is unchanged before, and one unit offset further
   in that direction after that tick. *)
C9_Original ==
    \A m \in Walkers :
        /\ Updates(m) < ClaimedTicks => ent[m].position = ent[m].origin
        /\ Updates(m) = ClaimedTicks =>
              ent[m].position = Position_add(ent[m].origin, ent[m].next_direction)

(* C9, amended: such an entity advances int(300/48) = 6 sub-steps a tick and
   completes its first tile on tick ceil(100/6) = 17 exactly: through tick 16
   its position is unchanged and its step is 6 times the ticks received;
   after tick 17 its position is one unit offset further in that direction. *)
C9_FirstTile ==
    \A m \in Walkers :
        /\ Updates(m) < FirstTileTicks =>
              /\ ent[m].position = ent[m].origin
              /\ ent[m].step = StepsPerFrame * Updates(m)
        /\ Updates(m) = FirstTileTicks =>
              ent[m].position = Position_add(ent[m].origin, ent[m].next_direction)

(* C9: the update of tick 17 has just moved the entity one tile *)
C9_Witness ==
    \E m \in Walkers :
        /\ op.name = "update" /\ op.entity = m
        /\ Updates(m) = FirstTileTicks
        /\ ent[m].position = Position_add(ent[m].origin, ent[m].next_direction)
        /\ ent[m].position # ent[m].origin

(* Bombs of the maze on tile p *)
BombsOn(p) == {b \in entities : ent[b].kind = "Bomb" /\ ent[b].position = p}

(* C10: Player.bombs() called when a Bomb is on the placement tile is a no-op:
   no Bomb is constructed, the maze's entity set and bomb_capacity are
   unchanged and no event is emitted; so is the call made with no capacity
   left.  Hence no tile ever holds two Bombs, and a player that placed its
   last bomb and calls bombs() again on the same tile leaves one Bomb there
   and its capacity at 0. *)
C10_Occupied ==
    /\ [](\A p \in Positions : Cardinality(BombsOn(p)) <= 1)
    /\ [][\A p \in Controlled :
             (/\ IsBombs(p)
              /\ ~(ent[p].step > AHEAD_STEP /\ ent[p].current_direction = NoDir)
              /\ \/ contains(World, {"Bomb"}, BombPosition(World, p))
                 \/ ent[p].bomb_capacity = 0)
                 => /\ ent' = ent
                    /\ entities' = entities
                    /\ events' = <<>>
                    /\ raised' = NoError]_vars

(* C10: the player placed its last bomb on its tile and bombs() was called
   again there: one Bomb on the tile, capacity 0, nothing emitted *)
C10_Witness ==
    /\ op.name = "bombs"
    /\ events = <<>>
    /\ ent[op.entity].bomb_capacity = 0
    /\ Cardinality(BombsOn(ent[op.entity].position)) = 1
    /\ Cardinality({b \in entities : ent[b].kind = "Bomb"}) = BASE_BOMB_CAPACITY

(* The tile the claims name for a bomb of player p: the destination of the
   transition in progress when p is more than 80 sub-steps through it, p's
   tile otherwise *)
PlacementTile(p) ==
    IF ent[p].step > AHEAD_STEP THEN ent[p].next_position ELSE ent[p].position

(* C11: Player.bombs() with bomb_capacity > 0 and no Bomb on the placement
   tile adds exactly one entity to the maze, a new Bomb of that player, and
   decrements bomb_capacity by exactly one.  The Bomb is on the player's tile
   when step <= 80 and on next_position when step > 80.  Nothing else of the
   player changes, its position in particular, and exactly one
   NewEntityEvent is emitted. *)
C11_Places ==
    [][\A p \in Controlled :
          (/\ IsBombs(p)
           /\ ent[p].bomb_capacity > 0
           /\ BombsOn(PlacementTile(p)) = {})
              => \E b \in Ids \ Constructed :
                    /\ entities' = entities \cup {b}
                    /\ ent'[b].kind = "Bomb"
                    /\ ent'[b].position = PlacementTile(p)
                    /\ ent'[b].player = p
                    /\ ent'[p] = [ent[p] EXCEPT !.bomb_capacity = @ - 1]
                    /\ \A x \in Ids \ {b, p} : ent'[x] = ent[x]
                    /\ Types(events') = <<"NewEntityEvent">>
                    /\ events'[1].entity = b
                    /\ raised' = NoError]_vars

(* C11: bombs() has just placed a bomb on the tile of a player that is in a
   transition, at most 80 sub-steps through it *)
C11_Witness ==
    /\ op.name = "bombs"
    /\ Types(events) = <<"NewEntityEvent">>
    /\ ent[op.entity].step > 0 /\ ent[op.entity].step <= AHEAD_STEP
    /\ ent[op.entity].next_position # NoPos
    /\ ent[events[1].entity].position = ent[op.entity].position
    /\ ent[op.entity].position # ent[op.entity].origin
    /\ ent[op.entity].bomb_capacity < BASE_BOMB_CAPACITY

(* C12: in every state reachable through the driver (ticks, direction
   requests, the bombs key and hits with any damage) no operation has raised:
   hit, update and bombs have no failure path.  bombs() is never called with
   step > 80 and no current direction, never places a bomb outside the maze,
   and no entity is removed from the entity set twice. *)
C12_NoFailure ==
    /\ raised = NoError
    /\ \A e \in Constructed :
          IsInstance(ent[e].kind, {"Player"}) =>
              /\ ent[e].step > AHEAD_STEP => ent[e].current_direction # NoDir
              /\ is_inside(BombPosition(World, e))
    /\ pending \subseteq entities

(* C12: a player hit to death more than 80 sub-steps through a transition
   has been removed by its update, and its controller has called bombs() *)
C12_Witness ==
    /\ op.name = "bombs"
    /\ Removed(op.entity)
    /\ ent[op.entity].step > AHEAD_STEP
    /\ Types(events) = <<"NewEntityEvent">>
    /\ hits > 0

(* C13: Maze.add_entity(e) with e.position outside the maze size fails with
   OutOfMazeError, leaves the entity set unchanged and emits no event; with
   e.position inside, it inserts e and then emits exactly one NewEntityEvent
   for e, which the observers receive with e already in the set. *)
C13_AddEntity ==
    [][op'.name = "add_entity" =>
          LET e == op'.entity
              i == ent'[e].position[1]
              j == ent'[e].position[2]
          IN  IF 0 <= i /\ i < ROWS /\ 0 <= j /\ j < COLUMNS
              THEN /\ entities' = entities \cup {e}
                   /\ Types(events') = <<"NewEntityEvent">>
                   /\ events'[1].entity = e
                   /\ events'[1].subject = "maze"
                   /\ events'[1].member
                   /\ raised' = NoError
              ELSE /\ entities' = entities
                   /\ events' = <<>>
                   /\ raised' = "OutOfMazeError"]_vars

(* C13: an entity was added, then add_entity failed for one just past the
   last row and left the set as it was *)
C13_Witness ==
    /\ op.name = "add_entity"
    /\ raised = "OutOfMazeError"
    /\ ent[op.entity].position[1] = ROWS
    /\ ent[op.entity].position[2] \in 0..(COLUMNS - 1)
    /\ op.entity \notin entities
    /\ entities # {}
    /\ events = <<>>

(* C14, as claimed: round trip.  For every maze m of every size >= 1x1 that
   holds only entities of the classes with a symbol (SolideWall,
   BreakableWall, Player) on distinct tiles, the mazes whose corner tiles or
   whole last row are empty included, unserialize(serialize(m)) succeeds and
   yields a maze of the same size with the same symbol on every tile. *)
C14_Original ==
    (level.rows = <<>> /\ loaded # NotLoaded)
        => /\ loaded.raised = NoError
           /\ loaded.size = level.size
           /\ loaded.entities = level.entities

(* C15, as claimed: Maze.unserialize of a description in which some row has
   a different number of columns than row 0 raises MazeDescriptionError with
   the index of that row (the first such row), and returns no maze, whatever
   the other rows contain. *)
C15_Original ==
    (level.rows # <<>> /\ loaded # NotLoaded)
        => LET rows == level.rows
               odd == {i \in 1..Len(rows) : Len(rows[i]) # Len(rows[1])}
           IN  odd # {} =>
                   /\ loaded.raised = "MazeDescriptionError"
                   /\ loaded.line + 1 \in odd
                   /\ \A h \in odd : loaded.line + 1 <= h

(* C16, as claimed: each changed(event) call on a subject delivers
   notify(event) in registration order and exactly once per registration (an
   observer registered k times is notified k times) to the observers
   registered on the subject before the call began, and to no others: an
   observer added by a notify during the dispatch receives only the events
   of later changed calls. *)
C16_Original ==
    [][notified' # notified =>
          \E e \in Events :
              notified' = notified \o [k \in 1..Len(observers) |->
                                          [observer |-> observers[k], event |-> e]]]_vars

(* C16, amended: each changed(event) call on a subject delivers notify(event)
   in registration order and exactly once per registration (an observer
   registered k times is notified k times) to every observer registered on
   the subject when the call returns: those registered before the call
   began, then those a notify added during the dispatch, which receive the
   event of the call in progress as well as those of later calls.  No
   registration is dropped or reordered. *)
C16_Dispatch ==
    [][notified' # notified =>
          /\ SubSeq(observers', 1, Len(observers)) = observers
          /\ \E e \in Events :
                notified' = notified \o [k \in 1..Len(observers') |->
                                            [observer |-> observers'[k], event |-> e]]]_vars

(* C16: "b" twice and "r" were registered; the first changed call notified
   them in that order and then "a", which the notify of "r" had just added;
   the second call notified all four *)
C16_Witness ==
    /\ observers = <<"b", "b", "r", "a", "a">>
    /\ Len(notified) = 9
    /\ [k \in 1..4 |-> notified[k].observer] = <<"b", "b", "r", "a">>
    /\ \A k \in 1..4 : notified[k].event = "NewEntityEvent"
    /\ \A k \in 5..9 : notified[k].event = "RemovedEntityEvent"

(* The ticks whose sweep has reached, or did not have to reach, e *)
Swept(e) == IF pc = "sweep" /\ e \in pending THEN ticks - 1 ELSE ticks

(* C17: in each tick of the driver every entity that is a member of the maze
   at the start of the tick receives exactly one update call, even when
   entities remove themselves from the set during the sweep: a member has
   received one update for each tick started since it was constructed, the
   tick it was constructed in excluded (a Bomb placed by a controller gets
   no update in that tick).  No entity is updated after it has been removed:
   an update is always of a member, and the count of a removed entity does
   not change. *)
C17_OneUpdate ==
    /\ [](\A e \in entities : ent[e].updates = Swept(e) - ent[e].since)
    /\ [][\A e \in Constructed :
             /\ ent'[e].updates # ent[e].updates
                   => (e \in entities /\ ent'[e].updates = ent[e].updates + 1)
             /\ Removed(e) => ent'[e].updates = ent[e].updates]_vars

(* C17: a tick has ended in which a bomb placed in the first tick removed
   itself during the sweep, every other member was updated, and a bomb was
   placed, which has received no update *)
C17_Witness ==
    /\ pc = "idle" /\ ticks = 2
    /\ op.name = "bombs"
    /\ \E b, c \in Bombs :
          /\ Removed(b) /\ ent[b].since = 1 /\ ent[b].updates = 1
          /\ c \in entities /\ ent[c].since = 2 /\ ent[c].updates = 0
    /\ \A e \in entities : ent[e].kind # "Bomb" => ent[e].updates = 2

Walls == {x \in entities : ent[x].kind \in {"SolideWall", "BreakableWall"}}
Players == {x \in entities : ent[x].kind = "Player"}

(* C18: in a maze whose walls are those present at load and in which no
   Player starts on a wall tile, after any sequence of ticks, direction
   requests and bomb placements (and hits), no Player's position equals the
   position of a SolideWall or BreakableWall that is a member of the entity
   set, a BreakableWall in the Removing state included. *)
C18_NoPlayerOnWall ==
    \A p \in Players, x \in Walls : ent[p].position # ent[x].position

(* C18: the player has completed a tile and asked to go on to the tile of a
   breakable wall that is Removing and still in the maze; its update left it
   where it was, with no transition committed *)
C18_Witness ==
    /\ op.name = "update"
    /\ op.entity \in Players
    /\ ent[op.entity].position # ent[op.entity].origin
    /\ ent[op.entity].current_direction # NoDir
    /\ ent[op.entity].next_position = NoPos
    /\ \E x \in Walls :
          /\ ent[x].kind = "BreakableWall" /\ ent[x].is_removing
          /\ ent[x].position =
                 Position_add(ent[op.entity].position, ent[op.entity].current_direction)

(* C19: overlap prevention is applied only at the tick a transition is
   committed and only against the entities' current positions, not the
   destinations of the transitions in progress: the update of a Player that
   is at rest and wants a direction commits the move exactly when the tile
   is inside the maze and is the position of no wall and no Player.  So two
   Players that commit to the same free tile both complete their moves
   (the witness: two Players on one tile, having started on distinct ones). *)
C19_Advisory ==
    [][\A p \in Players :
          (/\ IsUpdate(p)
           /\ ~ent[p].is_removing
           /\ ent[p].next_position = NoPos
           /\ ent[p].next_direction # NoDir)
              => LET tile == Position_add(ent[p].position, ent[p].next_direction)
                     free == /\ 0 <= tile[1] /\ tile[1] < ROWS
                             /\ 0 <= tile[2] /\ tile[2] < COLUMNS
                             /\ \A x \in entities :
                                   ent[x].kind \in {"BreakableWall", "SolideWall", "Player"}
                                       => ent[x].position # tile
                 IN  (ent'[p].next_position = tile) <=> free]_vars

(* C19: two players that started on distinct tiles are on the same tile,
   each having completed its move *)
C19_Witness ==
    \E p, q \in Players :
        /\ p # q
        /\ ent[p].origin # ent[q].origin
        /\ ent[p].position = ent[q].position
        /\ ent[p].position \notin {ent[p].origin, ent[q].origin}
        /\ ent[p].updates = 2 /\ ent[q].updates = 2

(* C20, as claimed: after every update call returns, every MovingEntity has
   0 <= step <= 99, for every tick delta >= 0 (a delta large enough that
   delta * speed exceeds 100 included) and whether or not a follow-up
   transition is started with the sub-steps carried over. *)
C20_Original ==
    \A e \in Constructed :
        IsInstance(ent[e].kind, {"MovingEntity"})
            => (0 <= ent[e].step /\ ent[e].step <= TILE_STEPS - 1)

(* The entities of the maze that move *)
Movers == {e \in entities : IsInstance(ent[e].kind, {"MovingEntity"})}

(* int(delay * speed) for the tick in progress *)
Increment(e) == (delta * ent[e].speed) \div 1200

(* The tile is inside the maze and is the position of no entity, e apart,
   of a class that blocks e *)
FreeFor(e, tile) ==
    /\ 0 <= tile[1] /\ tile[1] < ROWS
    /\ 0 <= tile[2] /\ tile[2] < COLUMNS
    /\ \A x \in entities \ {e} :
          IsInstance(ent[x].kind, BLOCKED_BY(ent[e].kind)) => ent[x].position # tile

(* The tile next to position p in direction d, NoPos when d is unset *)
Ahead(p, d) == IF d = NoDir THEN NoPos ELSE Position_add(p, d)

(* The tile the update of e is moving e to: that of the transition in
   progress, or of the transition it commits, if any *)
Heading(e) ==
    IF ent[e].next_position # NoPos THEN ent[e].next_position
    ELSE IF ent[e].next_direction # NoDir
            /\ FreeFor(e, Ahead(ent[e].position, ent[e].next_direction))
         THEN Ahead(ent[e].position, ent[e].next_direction)
    ELSE NoPos

(* The step is the update of e at which its step reaches >= 100 *)
Completes(e) ==
    /\ IsUpdate(e)
    /\ ~ent[e].is_removing
    /\ Heading(e) # NoPos
    /\ ent[e].step + Increment(e) >= TILE_STEPS

(* What C21 says of such an update, idle being the value of
   current_direction when no transition follows *)
Completed(e, idle) ==
    LET follow == Ahead(Heading(e), ent[e].next_direction)
    IN  /\ ent'[e].position = Heading(e)
        /\ ent'[e].try_moving_since = 0
        /\ IF follow # NoPos /\ FreeFor(e, follow)
           THEN /\ ent'[e].next_position = follow
                /\ ent'[e].current_direction = ent[e].next_direction
                /\ ent'[e].step = ent[e].step + Increment(e) - TILE_STEPS
           ELSE /\ ent'[e].next_position = NoPos
                /\ ent'[e].current_direction = idle
                /\ ent'[e].step = 0
        /\ Types(events') = <<"MovedEntityEvent">>
        /\ events'[1].entity = e
        /\ events'[1].position = ent'[e].position
        /\ events'[1].step = ent'[e].step

(* C21, as claimed: on the update at which step reaches >= 100, position
   becomes next_position and try_moving_since becomes 0; if next_direction is
   set and the tile position + next_direction is in bounds and free of
   blocked variants, a follow-up transition starts with next_position = that
   tile, current_direction = next_direction and step = the overflow;
   otherwise the entity is idle: next_position unset, current_direction
   unset and step = 0.  Exactly one MovedEntityEvent is emitted, after these
   changes. *)
C21_Original ==
    [][\A e \in Movers : Completes(e) => Completed(e, NoDir)]_vars

(* C21, amended: the same, except that when no transition follows
   current_direction is next_direction: unset when no direction is requested,
   the requested direction when its tile is out of bounds or blocked. *)
C21_Complete ==
    [][\A e \in Movers : Completes(e) => Completed(e, ent[e].next_direction)]_vars

(* C21: an update has just completed a tile; the requested direction leads
   to a blocked or out of bounds tile, so no transition follows, the
   sub-steps left over are dropped and current_direction is that direction *)
C21_Witness ==
    /\ op.name = "update"
    /\ op.entity \in Movers
    /\ Types(events) = <<"MovedEntityEvent">>
    /\ ent[op.entity].position # ent[op.entity].origin
    /\ ent[op.entity].try_moving_since = 0
    /\ ent[op.entity].next_position = NoPos
    /\ ent[op.entity].step = 0
    /\ ent[op.entity].current_direction # NoDir
    /\ ent[op.entity].current_direction = ent[op.entity].next_direction
    /\ ~FreeFor(op.entity, Ahead(ent[op.entity].position, ent[op.entity].current_direction))

(* What C22 says, for the movers that satisfy Free when at rest: a direction
   request only overwrites next_direction; while a transition is in progress
   next_position and current_direction change in no step but the update at
   which step reaches >= 100; the update of a mover with no transition in
   progress sets current_direction to the direction requested last *)
Directed(Free(_)) ==
    \A e \in Movers :
        /\ (op'.name = "set_wanted_direction" /\ op'.entity = e /\ pc = "idle")
              => /\ ent'[e] = [ent[e] EXCEPT !.next_direction = op'.direction]
                 /\ \A x \in Ids \ {e} : ent'[x] = ent[x]
                 /\ entities' = entities
        /\ (ent[e].next_position # NoPos /\ ~Completes(e))
              => /\ ent'[e].next_position = ent[e].next_position
                 /\ ent'[e].current_direction = ent[e].current_direction
        /\ (IsUpdate(e) /\ ent[e].next_position = NoPos /\ Free(e))
              => ent'[e].current_direction = ent[e].next_direction

Whichever(e) == TRUE
Alive(e) == ~ent[e].is_removing

(* C22, as claimed: set_wanted_direction only overwrites next_direction
   (last write wins; position, step, next_position and current_direction are
   untouched); while a transition is in progress neither next_position nor
   current_direction changes, whatever directions are requested, until the
   update at which step reaches >= 100; when no transition is in progress,
   update sets current_direction to the most recently requested direction. *)
C22_Original == [][Directed(Whichever)]_vars

(* C22, amended: the same, the last part for an entity that is not in the
   Removing state: when no transition is in progress, the update of an entity
   that is not Removing sets current_direction to the most recently
   requested direction (the update of a Removing entity changes neither). *)
C22_Direction == [][Directed(Alive)]_vars

(* C22: the player, committed downwards by an update and 90 steps into the
   transition, has just been asked to go right: the transition is as it was *)
C22_Witness ==
    /\ op.name = "set_wanted_direction"
    /\ op.entity \in Movers
    /\ op.direction = "RIGHT"
    /\ ent[op.entity].updates = 1
    /\ ent[op.entity].next_position = Ahead(ent[op.entity].position, "DOWN")
    /\ ent[op.entity].current_direction = "DOWN"
    /\ ent[op.entity].next_direction = "RIGHT"
    /\ ent[op.entity].step = Increment(op.entity)

(* What C23 says, for the movers that satisfy Able: the update of a mover
   with no transition in progress and a direction requested holds the mover
   where it is (step 0, no next_position, one MovedEntityEvent) when the
   candidate tile is out of bounds or the position of a member of a blocked
   variant, and otherwise commits the transition and advances step *)
Attempts(Able(_)) ==
    \A e \in Movers :
        (/\ IsUpdate(e)
         /\ Able(e)
         /\ ent[e].next_position = NoPos
         /\ ent[e].next_direction # NoDir)
        => LET tile == Ahead(ent[e].position, ent[e].next_direction) IN
           /\ Types(events') = <<"MovedEntityEvent">>
           /\ events'[1].entity = e
           /\ IF ~FreeFor(e, tile)
              THEN /\ ent'[e].position = ent[e].position
                   /\ ent'[e].step = 0
                   /\ ent'[e].next_position = NoPos
                   /\ ent'[e].try_moving_since = ent[e].try_moving_since + delta
              ELSE Increment(e) < TILE_STEPS
                   => /\ ent'[e].position = ent[e].position
                      /\ ent'[e].next_position = tile
                      /\ ent'[e].current_direction = ent[e].next_direction
                      /\ ent'[e].step = Increment(e)

(* C23, as claimed: when a MovingEntity with no transition in progress
   requests a direction whose candidate tile is out of bounds or occupied by
   an entity of a blocked variant that is still in the set (a BreakableWall
   in Removing state included), update leaves position unchanged, step at 0
   and next_position unset and emits exactly one MovedEntityEvent; it
   re-attempts on every later tick, and on the first tick at which the
   direction is still requested and the tile is in bounds and free the
   transition is committed and step advances in that same tick. *)
C23_Original == [][Attempts(Whichever)]_vars

(* C23, amended: the same of a MovingEntity that is not in the Removing
   state; the update of a Removing one neither attempts nor emits a
   MovedEntityEvent. *)
C23_Attempts == [][Attempts(Alive)]_vars

(* C23: the player, held by the breakable wall for two ticks, the second
   with the wall in the Removing state, has committed the transition onto
   the tile of the wall at the tick the wall was removed, and advanced *)
C23_Witness ==
    /\ op.name = "update"
    /\ op.entity \in Movers
    /\ \E x \in Constructed \ entities :
          /\ ent[x].kind = "BreakableWall"
          /\ ent[op.entity].next_position = ent[x].position
    /\ ent[op.entity].position = ent[op.entity].origin
    /\ ent[op.entity].step = Increment(op.entity)
    /\ ent[op.entity].try_moving_since = 3 * delta
    /\ Types(events) = <<"MovedEntityEvent">>

(* C24: the update of a MovingEntity in the Removing state performs no
   movement: position, step, next_position, current_direction and
   try_moving_since are unchanged and no MovedEntityEvent is emitted,
   whatever direction is requested, the tick at which the entity is removed
   included. *)
C24_NoMovement ==
    [][\A e \in Movers :
          (IsUpdate(e) /\ ent[e].is_removing)
          => /\ ent'[e].position = ent[e].position
             /\ ent'[e].step = ent[e].step
             /\ ent'[e].next_position = ent[e].next_position
             /\ ent'[e].current_direction = ent[e].current_direction
             /\ ent'[e].try_moving_since = ent[e].try_moving_since
             /\ \A i \in 1..Len(events') : events'[i].type # "MovedEntityEvent"]_vars

(* C24: the player, hit dead 90 steps into a transition and asked since to
   go another way, has been removed by its update with the transition as it
   was *)
C24_Witness ==
    /\ op.name = "update"
    /\ Removed(op.entity)
    /\ IsInstance(ent[op.entity].kind, {"MovingEntity"})
    /\ ent[op.entity].is_removing
    /\ ent[op.entity].next_position # NoPos
    /\ ent[op.entity].step = Increment(op.entity)
    /\ ent[op.entity].try_moving_since = delta
    /\ ent[op.entity].next_direction \notin {NoDir, ent[op.entity].current_direction}
    /\ Types(events) = <<"RemovedEntityEvent">>

(* The bombs of player p that are members of the maze *)
OwnedBy(p) == {b \in entities : ent[b].kind = "Bomb" /\ ent[b].player = p}

(* C25, as claimed: for every Player, after every operation (bombs, update
   of any entity, hit on any entity), bomb_capacity plus the number of Bombs
   owned by that player that are members of the maze's entity set equals the
   player's initial capacity, BASE_BOMB_CAPACITY = 6; hence
   0 <= bomb_capacity <= 6 in every reachable state. *)
C25_Original ==
    \A p \in Constructed :
        ent[p].kind = "Player"
        => /\ ent[p].bomb_capacity + Cardinality(OwnedBy(p)) = BASE_BOMB_CAPACITY
           /\ 0 <= ent[p].bomb_capacity
           /\ ent[p].bomb_capacity <= BASE_BOMB_CAPACITY

(* Every MovingEntity constructed, members of the maze or not *)
Moving == {e \in Constructed : IsInstance(ent[e].kind, {"MovingEntity"})}

(* Tiles one unit apart along one axis *)
Adjacent(p, q) == \E d \in Direction : q = Position_add(p, d)

(* C26: in every reachable state of every MovingEntity, step # 0 implies
   that a transition is in progress (next_position is set), and
   next_position set implies that current_direction is set and
   next_position = position + current_direction; so position only ever
   changes to an adjacent tile, at most one tile per update, and
   Player.bombs() with step > 80 always has a direction and an in-bounds
   destination to place on. *)
C26_Transition ==
    /\ [](\A e \in Moving :
            /\ ent[e].step # 0 => ent[e].next_position # NoPos
            /\ ent[e].next_position # NoPos
                  => /\ ent[e].current_direction # NoDir
                     /\ ent[e].next_position =
                            Position_add(ent[e].position, ent[e].current_direction)
            /\ ent[e].step > AHEAD_STEP
                  => /\ ent[e].current_direction # NoDir
                     /\ is_inside(Position_add(ent[e].position, ent[e].current_direction)))
    /\ [][\A e \in Moving :
            ent'[e].position # ent[e].position
            => /\ IsUpdate(e)
               /\ Adjacent(ent[e].position, ent'[e].position)
               /\ ent'[e].position = Heading(e)]_vars

(* C26: the player, one tile away from where it started and more than 80
   steps into the next transition, has just placed a bomb on the tile it is
   moving to *)
C26_Witness ==
    /\ op.name = "bombs"
    /\ ent[op.entity].position # ent[op.entity].origin
    /\ ent[op.entity].step > AHEAD_STEP
    /\ \E b \in entities :
          /\ ent[b].kind = "Bomb"
          /\ ent[b].since = ticks
          /\ ent[b].position = ent[op.entity].next_position
          /\ ent[b].position # ent[op.entity].position

(* p is in the Removing state or has been removed from the maze *)
Gone(p) == ent[p].is_removing \/ p \notin entities

(* C27, as claimed: once a Player is in the Removing state or has been
   removed from the maze, the bombs() calls its controller keeps making while
   the bomb key is held add no Bomb to the maze and leave bomb_capacity
   unchanged: no Bomb owned by a Removing or removed player is ever newly
   added to the entity set. *)
C27_Original ==
    [][/\ \A p \in Constructed :
            (ent[p].kind = "Player" /\ Gone(p) /\ IsBombs(p))
            => /\ entities' = entities
               /\ ent'[p].bomb_capacity = ent[p].bomb_capacity
       /\ \A b \in entities' \ entities :
            ent'[b].kind = "Bomb" => ~Gone(ent'[b].player)]_vars

====
